---------------------------- MODULE Spec2Model ----------------------------
(***************************************************************************)
(* Model of powerplan's hardware layer (src/src/cpu.py): the import-time   *)
(* probe that builds the CPU dict and the RAPL meter, the control          *)
(* operations that write the cpufreq / hotplug / turbo / powercap files,   *)
(* and Rapl.read_power.                                                    *)
(*                                                                         *)
(* Files hold text.  A file that holds a number holds its decimal string;  *)
(* str() and int() are modelled by ToString and by its inverse over the    *)
(* literals the model writes.  A cpulist file ("0-3,5") is the sequence of *)
(* its comma separated entries, each entry a pair lo..hi (lo = hi for a    *)
(* single id).  Python's None is the string "None".                        *)
(***************************************************************************)
EXTENDS Integers, Sequences, FiniteSets, TLC

\* ------------------------------------------------------------------ bounds
MaxCores == 4          \* logical cores 0 .. MaxCores-1 at most
MaxTime == 3           \* the clock runs 0 .. MaxTime

\* ------------------------------------------------------- program constants
POWER_MICRO == 1000000                \* 10**6
None == "None"
ALLOWED_TEMP_SENSORS == <<"coretemp", "k10temp", "zenpower", "acpitz">>
turbo_pstate == "cpu/intel_pstate/no_turbo"
turbo_cpufreq == "cpu/cpufreq/boost"
turbo_amd_legacy == "cpu0/cpufreq/cpb"

VARIABLES
    hw,                             \* what the machine exposes and never changes
    cpu_online,                     \* cpu<N>/online, "0" or "1"
    scaling_governor,               \* cpu<N>/cpufreq/scaling_governor
    energy_performance_preference,  \* cpu<N>/cpufreq/energy_performance_preference
    scaling_min_freq,               \* cpu<N>/cpufreq/scaling_min_freq
    scaling_max_freq,               \* cpu<N>/cpufreq/scaling_max_freq
    perf_pct,                       \* intel_pstate/min_perf_pct, max_perf_pct
    turbo_file,                     \* content of the turbo control file
    powercap,                       \* intel-rapl:0/{enabled, energy_uj, constraint_*}
    clock,                          \* what time() returns now
    pc,                             \* "boot", "ready" or "aborted"
    CPU,                            \* the module-level CPU dict
    RAPL,                           \* the module-level Rapl object
    log,                            \* messages handed to log_warning
    last                            \* the last call: op, args, raised, result, writes, reads

percore == <<scaling_governor, energy_performance_preference, scaling_min_freq,
             scaling_max_freq>>
files == <<cpu_online, scaling_governor, energy_performance_preference,
           scaling_min_freq, scaling_max_freq, perf_pct, turbo_file, powercap>>
program == <<pc, CPU, RAPL, log>>
vars == <<hw, files, clock, program, last>>

\* ------------------------------------------------------- Python primitives
\* the integers that appear, as text, in some file of the model
IntLiterals == {0, 1, 10, 50, 100, 800, 900, 999, 1000, 2000, 3000}
                \cup {w * POWER_MICRO : w \in {15, 25}}

\* str(n)
str(n) == ToString(n)

\* int(s): the inverse of str on well-formed text
int(s) == CHOOSE n \in IntLiterals : ToString(n) = s

\* bool(n) for an integer n
bool(n) == n # 0

\* a ^ b on booleans
xor(a, b) == a # b

\* int(b) for a boolean b
int_of_bool(b) == IF b THEN 1 ELSE 0

\* a float, kept exact: num / den / 10**(6 * micro)
Float(n, d, k) == [num |-> n, den |-> d, micro |-> k]

\* the record of a call
Call(op, args, raised, result, writes, reads) ==
    [op |-> op, args |-> args, raised |-> raised, result |-> result,
     writes |-> writes, reads |-> reads, held |-> FALSE]

\* the record of a call of a control operation; held: the state it asks for
\* held already when it was called
Control(held, op, args, raised, result, writes, reads) ==
    [Call(op, args, raised, result, writes, reads) EXCEPT !.held = held]

\* one write_text: the file, the core it belongs to (-1: global), the text
W(file, core, text) == <<file, core, text>>


\* ------------------------------------------------------------ sysfs, kernel
Min(S) == CHOOSE x \in S : \A y \in S : x <= y

\* the kernel's cpulist text of a set of core ids: maximal runs, ascending
RECURSIVE KernelCpuList(_)
KernelCpuList(S) ==
    IF S = {} THEN <<>>
    ELSE LET lo == Min(S)
             hi == CHOOSE h \in S : (lo .. h) \subseteq S /\ (h + 1) \notin S
         IN  <<[lo |-> lo, hi |-> hi]>> \o KernelCpuList(S \ (lo .. hi))

\* cpu<N>/online exists for every core but the boot core
online_exists(core_id) == core_id # 0

OnlineSet(online) == {c \in DOMAIN online : online[c] = "1"}

\* the entries of CPU_DIR + status, given the cores' online files
CpuStatusFile(status, online) ==
    IF status = "present" THEN KernelCpuList(DOMAIN online)
    ELSE IF status = "online" THEN KernelCpuList(OnlineSet(online))
    ELSE KernelCpuList(DOMAIN online \ OnlineSet(online))

\* cpu<N>/topology/thread_siblings_list: exists only while the core is online,
\* and lists the online siblings
thread_siblings_list(core_id, online) ==
    KernelCpuList(hw.siblings[core_id] \cap OnlineSet(online))

\* -------------------------------------------------------------- list_cores
RangeList(start, end) == [i \in 1 .. (end - start + 1) |-> start + i - 1]

RECURSIVE cpu_ranges_to_list(_)
cpu_ranges_to_list(cpu_ranges) ==
    IF cpu_ranges = <<>> THEN <<>>
    ELSE LET cpu_range == Head(cpu_ranges)
         IN  (IF cpu_range.lo # cpu_range.hi       \* '-' in cpu_range
              THEN RangeList(cpu_range.lo, cpu_range.hi)
              ELSE <<cpu_range.lo>>) \o cpu_ranges_to_list(Tail(cpu_ranges))

list_cores_of(status, online) ==
    LET cpu_ranges == CpuStatusFile(status, online)
    IN  IF cpu_ranges = <<>> THEN <<>> ELSE cpu_ranges_to_list(cpu_ranges)

list_cores(status) == list_cores_of(status, cpu_online)

Range(s) == {s[i] : i \in DOMAIN s}

\* ------------------------------------------------------ temperature sensor
RECURSIVE first_allowed_sensor(_, _)
first_allowed_sensor(temperature_sensors, i) ==
    IF i > Len(ALLOWED_TEMP_SENSORS) THEN None
    ELSE IF ALLOWED_TEMP_SENSORS[i] \in DOMAIN temperature_sensors
         THEN ALLOWED_TEMP_SENSORS[i]
         ELSE first_allowed_sensor(temperature_sensors, i + 1)

read_crit_temp ==
    LET sensor == first_allowed_sensor(hw.sensors, 1)
    IN  IF sensor # None THEN hw.sensors[sensor] ELSE 100

\* ------------------------------------------------------------ power supply
\* the for/else scan over the globbed devices: the first device of the wanted
\* type whose companion file exists, else None
RECURSIVE scan_devices(_, _, _)
scan_devices(devices, i, wanted) ==
    IF i > Len(devices) THEN None
    ELSE IF devices[i].type = wanted /\ devices[i].companion
         THEN devices[i].name
         ELSE scan_devices(devices, i + 1, wanted)

power_supply_detection ==
    [ac |-> scan_devices(hw.ac_devices, 1, "Mains"),
     bat |-> scan_devices(hw.bat_devices, 1, "Battery")]

BatDevice(bat_device_path) ==
    hw.bat_devices[CHOOSE i \in DOMAIN hw.bat_devices :
                       hw.bat_devices[i].name = bat_device_path]

\* power_reading_method that takes a battery for granted
power_reading_method_assumes_battery(bat_device_path) ==
    IF bat_device_path = None THEN "power"
    ELSE IF BatDevice(bat_device_path).power_now # None THEN "power"
    ELSE IF BatDevice(bat_device_path).current_now # None
            /\ BatDevice(bat_device_path).voltage_now # None
         THEN "current_and_voltage"
    ELSE None

power_reading_method(bat_device_path) ==
    IF bat_device_path = None THEN None
    ELSE IF BatDevice(bat_device_path).power_now # None THEN "power"
    ELSE IF BatDevice(bat_device_path).current_now # None
            /\ BatDevice(bat_device_path).voltage_now # None
         THEN "current_and_voltage"
    ELSE None


\* ------------------------------------------------- thread sibling detection
\* tuple < tuple as Python compares them
RECURSIVE tuple_less(_, _)
tuple_less(a, b) ==
    IF a = <<>> THEN b # <<>>
    ELSE IF b = <<>> THEN FALSE
    ELSE IF Head(a) # Head(b) THEN Head(a) < Head(b)
    ELSE tuple_less(Tail(a), Tail(b))

\* a sort that puts the greatest tuple first
RECURSIVE sorted_reverse(_)
sorted_reverse(siblings_set) ==
    IF siblings_set = {} THEN <<>>
    ELSE LET greatest == CHOOSE a \in siblings_set :
                             \A b \in siblings_set \ {a} : tuple_less(b, a)
         IN  <<greatest>> \o sorted_reverse(siblings_set \ {greatest})

\* sorted(siblings_set)
RECURSIVE sorted(_)
sorted(siblings_set) ==
    IF siblings_set = {} THEN <<>>
    ELSE LET least == CHOOSE a \in siblings_set :
                          \A b \in siblings_set \ {a} : tuple_less(a, b)
         IN  <<least>> \o sorted(siblings_set \ {least})

\* int(ths) raises ValueError on an entry "lo-hi"
siblings_parse_ok(online) ==
    \A core_id \in Range(list_cores_of("present", online)) :
        core_id \in OnlineSet(online) =>
            \A i \in DOMAIN thread_siblings_list(core_id, online) :
                thread_siblings_list(core_id, online)[i].lo
                    = thread_siblings_list(core_id, online)[i].hi

detect_siblings_set(online) ==
    {[i \in DOMAIN thread_siblings_list(core_id, online) |->
          thread_siblings_list(core_id, online)[i].lo] :
        core_id \in Range(list_cores_of("present", online)) \cap OnlineSet(online)}

\* ---------------------------------------------------------------- the probe
\* set_all_cores_online: the online files afterwards, and the writes
set_all_cores_online_files ==
    [c \in DOMAIN cpu_online |-> IF online_exists(c) THEN "1" ELSE cpu_online[c]]

set_all_cores_online_writes ==
    LET present == SelectSeq(list_cores("present"), online_exists)
    IN  [i \in DOMAIN present |-> W("online", present[i], "1")]

lower(text) == IF text = "INTEL_PSTATE" THEN "intel_pstate" ELSE text

\* CPU = dict(...), lines 379-387 (the model name and the bounds are text the
\* claims never read; policies is handled by the caller: its file may be absent)
cpu_base ==
    ( "logical_cores" :> Len(list_cores("present"))
   @@ "crit_temp" :> read_crit_temp
   @@ "minfreq" :> int(hw.cpuinfo_min_freq)
   @@ "maxfreq" :> int(hw.cpuinfo_max_freq)
   @@ "governors" :> hw.scaling_available_governors )

cpu_scaling_driver ==
    IF lower(hw.scaling_driver) = "intel_pstate"
    THEN ( "scaling_driver" :> "intel_pstate"
        @@ "min_perf_pct_path" :> "cpu/intel_pstate/min_perf_pct"
        @@ "max_perf_pct_path" :> "cpu/intel_pstate/max_perf_pct"
        @@ "basefreq" :> int(hw.base_frequency) )
    ELSE ( "scaling_driver" :> "cpufreq" )

cpu_turbo_path ==
    IF turbo_pstate \in hw.turbo_files
    THEN ("turbo_path" :> turbo_pstate @@ "turbo_inverse" :> TRUE)
    ELSE IF turbo_cpufreq \in hw.turbo_files
    THEN ("turbo_path" :> turbo_cpufreq @@ "turbo_inverse" :> FALSE)
    ELSE IF turbo_amd_legacy \in hw.turbo_files
    THEN ("turbo_path" :> turbo_amd_legacy @@ "turbo_inverse" :> FALSE)
    ELSE ("turbo_path" :> None)

\* the write-back test of the turbo file: PermissionError means not allowed
cpu_turbo_allowed(cpu) ==
    IF cpu["turbo_path"] # None
    THEN ("turbo_allowed" :> hw.turbo_writable)
    ELSE <<>>

turbo_probe_writes(cpu) ==
    IF cpu["turbo_path"] # None /\ hw.turbo_writable
    THEN <<W(cpu["turbo_path"], -1, turbo_file)>>
    ELSE <<>>

cpu_siblings(online) ==
    ( "thread_siblings" :> sorted(detect_siblings_set(online))
   @@ "physical_cores" :> Cardinality(detect_siblings_set(online)) )

cpu_power ==
    ( "ac_path" :> power_supply_detection.ac
   @@ "bat_path" :> power_supply_detection.bat
   @@ "power_reading_method" :> power_reading_method(power_supply_detection.bat) )

has_1(text) == text = "1"

\* Rapl.__init__
Rapl_init ==
    IF hw.rapl_energy_exists /\ hw.rapl_enabled_exists /\ hw.root
       /\ has_1(powercap.enabled)
    THEN ( "enabled" :> TRUE
        @@ "max_energy" :> int(hw.max_energy_range_uj)
        @@ "last_energy" :> int(powercap.energy_uj)
        @@ "last_time" :> clock )
    ELSE ( "enabled" :> FALSE )

\* the warnings logged so far; the last two are logged at the end of the import
probe_warnings(cpu) ==
    (IF cpu["turbo_path"] = None THEN {"Turbo boost is not available."} ELSE {})
    \cup (IF "turbo_allowed" \in DOMAIN cpu /\ ~cpu["turbo_allowed"]
          THEN {"Turbo (boost/core) is disabled on BIOS or not available."} ELSE {})
    \cup (IF "power_reading_method" \in DOMAIN cpu /\ cpu["power_reading_method"] = None
          THEN {"No power reading method available."} ELSE {})
    \cup (IF "ac_path" \in DOMAIN cpu /\ DOMAIN hw.sensors \cap Range(ALLOWED_TEMP_SENSORS) = {}
          THEN {"Couldn't detect a known CPU temperature sensor."} ELSE {})

\* import cpu: lines 375-467, in order; an exception ends the import
Probe ==
    /\ pc = "boot"
    /\ LET online == IF hw.root THEN set_all_cores_online_files ELSE cpu_online
           w1 == IF hw.root THEN set_all_cores_online_writes ELSE <<>>
           cpu1 == cpu_base
           cpu2 == cpu1 @@ ("policies" :> hw.energy_performance_available_preferences)
           cpu3 == cpu2 @@ cpu_scaling_driver @@ cpu_turbo_path
           cpu4 == cpu3 @@ cpu_turbo_allowed(cpu3)
           w2 == w1 \o turbo_probe_writes(cpu3)
           cpu5 == cpu4 @@ cpu_siblings(online) @@ cpu_power
       IN  /\ cpu_online' = online
           /\ IF ~hw.epp_exists      \* read_datafile: no such file
              THEN /\ pc' = "aborted"
                   /\ CPU' = <<>>
                   /\ RAPL' = <<>>
                   /\ log' = {}
                   /\ last' = Call("import", <<>>, "FileNotFoundError", None, w1, <<>>)
              ELSE IF ~siblings_parse_ok(online)
              THEN /\ pc' = "aborted"
                   /\ CPU' = cpu4
                   /\ RAPL' = <<>>
                   /\ log' = probe_warnings(cpu4)
                   /\ last' = Call("import", <<>>, "ValueError", None, w2, <<>>)
              ELSE /\ pc' = "ready"
                   /\ CPU' = cpu5
                   /\ RAPL' = Rapl_init
                   /\ log' = probe_warnings(cpu5)
                   /\ last' = Call("import", <<>>, None, None, w2, <<>>)
    /\ UNCHANGED <<hw, percore, perf_pct, turbo_file, powercap, clock>>


\* ------------------------------------------------------------- CPU CONTROL
Ready == pc = "ready"

\* the writes of "for core_id in list_cores('online'): <file>.write_text(text)"
writes_online(file, text) ==
    LET cores == list_cores("online")
    IN  [i \in DOMAIN cores |-> W(file, cores[i], text)]

\* the per-core file afterwards
written_online(file_contents, text) ==
    LET cores == Range(list_cores("online"))
    IN  [c \in DOMAIN file_contents |-> IF c \in cores THEN text ELSE file_contents[c]]

\* every online core has the text in its file
all_online_hold(file_contents, text) ==
    \A c \in Range(list_cores("online")) : file_contents[c] = text

read_governor(core_id) == scaling_governor[core_id]

governor_held(governor) == all_online_hold(scaling_governor, governor)

\* set_governor with the assertion compiled out
set_governor_unchecked(governor) ==
    /\ Ready
    /\ IF read_governor(0) # governor
       THEN /\ scaling_governor' = written_online(scaling_governor, governor)
            /\ last' = Control(governor_held(governor),
                               "set_governor", <<governor>>, None, None,
                            writes_online("scaling_governor", governor), <<>>)
       ELSE /\ last' = Control(governor_held(governor),
                               "set_governor", <<governor>>, None, None, <<>>, <<>>)
            /\ UNCHANGED scaling_governor
    /\ UNCHANGED <<hw, cpu_online, energy_performance_preference, scaling_min_freq,
                   scaling_max_freq, perf_pct, turbo_file, powercap, clock, program>>

\* set_governor that writes without reading the governor first
set_governor_unconditional(governor) ==
    /\ Ready
    /\ IF governor \notin Range(CPU["governors"])
       THEN /\ last' = Control(governor_held(governor),
                               "set_governor", <<governor>>, "AssertionError", None, <<>>, <<>>)
            /\ UNCHANGED scaling_governor
       ELSE /\ scaling_governor' = written_online(scaling_governor, governor)
            /\ last' = Control(governor_held(governor),
                               "set_governor", <<governor>>, None, None,
                            writes_online("scaling_governor", governor), <<>>)
    /\ UNCHANGED <<hw, cpu_online, energy_performance_preference, scaling_min_freq,
                   scaling_max_freq, perf_pct, turbo_file, powercap, clock, program>>

set_governor(governor) ==
    /\ Ready
    /\ IF governor \notin Range(CPU["governors"])
       THEN /\ last' = Control(governor_held(governor),
                               "set_governor", <<governor>>, "AssertionError", None, <<>>, <<>>)
            /\ UNCHANGED scaling_governor
       ELSE IF read_governor(0) # governor
       THEN /\ scaling_governor' = written_online(scaling_governor, governor)
            /\ last' = Control(governor_held(governor),
                               "set_governor", <<governor>>, None, None,
                            writes_online("scaling_governor", governor), <<>>)
       ELSE /\ last' = Control(governor_held(governor),
                               "set_governor", <<governor>>, None, None, <<>>, <<>>)
            /\ UNCHANGED scaling_governor
    /\ UNCHANGED <<hw, cpu_online, energy_performance_preference, scaling_min_freq,
                   scaling_max_freq, perf_pct, turbo_file, powercap, clock, program>>

read_policy(core_id) == energy_performance_preference[core_id]

policy_held(policy) == all_online_hold(energy_performance_preference, policy)

set_policy(policy) ==
    /\ Ready
    /\ IF policy \notin Range(CPU["policies"])
       THEN /\ last' = Control(policy_held(policy),
                               "set_policy", <<policy>>, "AssertionError", None, <<>>, <<>>)
            /\ UNCHANGED energy_performance_preference
       ELSE IF policy # read_policy(0)
       THEN /\ energy_performance_preference' =
                   written_online(energy_performance_preference, policy)
            /\ last' = Control(policy_held(policy),
                               "set_policy", <<policy>>, None, None,
                            writes_online("energy_performance_preference", policy), <<>>)
       ELSE /\ last' = Control(policy_held(policy),
                               "set_policy", <<policy>>, None, None, <<>>, <<>>)
            /\ UNCHANGED energy_performance_preference
    /\ UNCHANGED <<hw, cpu_online, scaling_governor, scaling_min_freq,
                   scaling_max_freq, perf_pct, turbo_file, powercap, clock, program>>

read_freq_range(core_id) ==
    <<int(scaling_min_freq[core_id]), int(scaling_max_freq[core_id])>>

freq_range_held(min_freq, max_freq) ==
    /\ all_online_hold(scaling_min_freq, ToString(min_freq))
    /\ all_online_hold(scaling_max_freq, ToString(max_freq))

\* the writes of one pass of the loop body of set_freq_range
freq_writes_core(core_id, min_freq, max_freq, current_freq_range) ==
    (IF min_freq # current_freq_range[1]
     THEN <<W("scaling_min_freq", core_id, str(min_freq))>> ELSE <<>>)
    \o (IF max_freq # current_freq_range[2]
        THEN <<W("scaling_max_freq", core_id, str(max_freq))>> ELSE <<>>)

RECURSIVE freq_writes(_, _, _, _)
freq_writes(cores, min_freq, max_freq, current_freq_range) ==
    IF cores = <<>> THEN <<>>
    ELSE freq_writes_core(Head(cores), min_freq, max_freq, current_freq_range)
         \o freq_writes(Tail(cores), min_freq, max_freq, current_freq_range)

set_freq_range(min_freq, max_freq) ==
    /\ Ready
    /\ IF ~(min_freq <= max_freq)
       THEN /\ last' = Control(freq_range_held(min_freq, max_freq),
                               "set_freq_range", <<min_freq, max_freq>>, "AssertionError",
                            None, <<>>, <<>>)
            /\ UNCHANGED <<scaling_min_freq, scaling_max_freq>>
       ELSE LET current_freq_range == read_freq_range(0)
            IN  /\ scaling_min_freq' =
                      IF min_freq # current_freq_range[1]
                      THEN written_online(scaling_min_freq, str(min_freq))
                      ELSE scaling_min_freq
                /\ scaling_max_freq' =
                      IF max_freq # current_freq_range[2]
                      THEN written_online(scaling_max_freq, str(max_freq))
                      ELSE scaling_max_freq
                /\ last' = Control(freq_range_held(min_freq, max_freq),
                                   "set_freq_range", <<min_freq, max_freq>>, None, None,
                                freq_writes(list_cores("online"), min_freq, max_freq,
                                            current_freq_range), <<>>)
    /\ UNCHANGED <<hw, cpu_online, scaling_governor, energy_performance_preference,
                   perf_pct, turbo_file, powercap, clock, program>>

read_perf_range == <<int(perf_pct.min), int(perf_pct.max)>>

perf_range_held(min_perf_pct, max_perf_pct) ==
    perf_pct = [min |-> ToString(min_perf_pct), max |-> ToString(max_perf_pct)]

set_perf_range(min_perf_pct, max_perf_pct) ==
    /\ Ready
    /\ IF ~(max_perf_pct >= min_perf_pct)
       THEN /\ last' = Control(perf_range_held(min_perf_pct, max_perf_pct),
                               "set_perf_range", <<min_perf_pct, max_perf_pct>>,
                            "AssertionError", None, <<>>, <<>>)
            /\ UNCHANGED perf_pct
       ELSE IF CPU["scaling_driver"] = "intel_pstate"
       THEN LET current_perf_range == read_perf_range
                wmin == min_perf_pct # current_perf_range[1]
                wmax == max_perf_pct # current_perf_range[2]
            IN  /\ perf_pct' = [min |-> IF wmin THEN str(min_perf_pct) ELSE perf_pct.min,
                                max |-> IF wmax THEN str(max_perf_pct) ELSE perf_pct.max]
                /\ last' = Control(perf_range_held(min_perf_pct, max_perf_pct),
                                   "set_perf_range", <<min_perf_pct, max_perf_pct>>, None, None,
                                (IF wmin THEN <<W(CPU["min_perf_pct_path"], -1,
                                                  str(min_perf_pct))>> ELSE <<>>)
                                \o (IF wmax THEN <<W(CPU["max_perf_pct_path"], -1,
                                                     str(max_perf_pct))>> ELSE <<>>),
                                <<>>)
       ELSE /\ last' = Control(perf_range_held(min_perf_pct, max_perf_pct),
                               "set_perf_range", <<min_perf_pct, max_perf_pct>>, None, None,
                            <<>>, <<>>)
            /\ UNCHANGED perf_pct
    /\ UNCHANGED <<hw, cpu_online, percore, turbo_file, powercap, clock, program>>

\* read_turbo_state that forgets the polarity of intel_pstate/no_turbo
read_turbo_state_plain ==
    IF CPU["turbo_path"] = None THEN None
    ELSE bool(int(turbo_file))

\* None when there is no turbo file, else a boolean
read_turbo_state ==
    IF CPU["turbo_path"] = None THEN None
    ELSE xor(bool(int(turbo_file)), CPU["turbo_inverse"])

\* the turbo file holds what turbo_state asks for (vacuous without a file)
turbo_held(turbo_state) ==
    CPU["turbo_path"] # None =>
        turbo_file = (IF turbo_state # CPU["turbo_inverse"] THEN "1" ELSE "0")

set_turbo_state(turbo_state) ==
    /\ Ready
    /\ IF "turbo_allowed" \notin DOMAIN CPU       \* CPU['turbo_allowed']: no such key
       THEN /\ last' = Control(turbo_held(turbo_state),
                               "set_turbo_state", <<turbo_state>>, "KeyError", None, <<>>, <<>>)
            /\ UNCHANGED turbo_file
       ELSE IF CPU["turbo_allowed"] /\ turbo_state # read_turbo_state
       THEN /\ turbo_file' = str(int_of_bool(xor(turbo_state, CPU["turbo_inverse"])))
            /\ last' = Control(turbo_held(turbo_state),
                               "set_turbo_state", <<turbo_state>>, None, None,
                            <<W(CPU["turbo_path"], -1,
                                str(int_of_bool(xor(turbo_state, CPU["turbo_inverse"]))))>>,
                            <<>>)
       ELSE /\ last' = Control(turbo_held(turbo_state),
                               "set_turbo_state", <<turbo_state>>, None, None, <<>>, <<>>)
            /\ UNCHANGED turbo_file
    /\ UNCHANGED <<hw, cpu_online, percore, perf_pct, powercap, clock, program>>


\* the status of physical core core_num (0-based), given the online files
read_physical_core_status(core_num, online) ==
    LET core_ids == CPU["thread_siblings"][core_num + 1]
    IN  IF 0 \in Range(core_ids) THEN TRUE
        ELSE bool(int(online[core_ids[1]]))

\* "for core_id in core_ids: <cpu core_id/online>.write_text(text)"
sibling_writes(core_ids, text) ==
    [i \in DOMAIN core_ids |-> W("online", core_ids[i], text)]

\* the loop of set_physical_cores_online from physical core core_num on:
\* the online files and the writes when it ends
RECURSIVE cores_online_loop(_, _, _, _)
cores_online_loop(core_num, num_cores, online, writes) ==
    IF core_num >= Len(CPU["thread_siblings"]) THEN [online |-> online, writes |-> writes]
    ELSE LET core_ids == CPU["thread_siblings"][core_num + 1]
             core_online == read_physical_core_status(core_num, online)
             text == IF core_num < num_cores THEN "1" ELSE "0"
             write == IF core_num < num_cores THEN ~core_online ELSE core_online
         IN  IF write
             THEN cores_online_loop(core_num + 1, num_cores,
                      [c \in DOMAIN online |->
                          IF c \in Range(core_ids) THEN text ELSE online[c]],
                      writes \o sibling_writes(core_ids, text))
             ELSE cores_online_loop(core_num + 1, num_cores, online, writes)

\* the first num_cores physical cores are online with all their siblings and
\* the others, but the one of logical core 0, are offline with all of theirs
cores_held(num_cores) ==
    \A i \in DOMAIN CPU["thread_siblings"] :
        \A c \in Range(CPU["thread_siblings"][i]) :
            IF i - 1 < num_cores THEN cpu_online[c] = "1"
            ELSE 0 \in Range(CPU["thread_siblings"][i]) \/ cpu_online[c] = "0"

set_physical_cores_online(num_cores) ==
    /\ Ready
    /\ IF ~(0 < num_cores /\ num_cores <= CPU["physical_cores"])
       THEN /\ last' = Control(cores_held(num_cores),
                               "set_physical_cores_online", <<num_cores>>, "AssertionError",
                            None, <<>>, <<>>)
            /\ UNCHANGED cpu_online
       ELSE LET done == cores_online_loop(0, num_cores, cpu_online, <<>>)
            IN  /\ cpu_online' = done.online
                /\ last' = Control(cores_held(num_cores),
                                   "set_physical_cores_online", <<num_cores>>, None, None,
                                done.writes, <<>>)
    /\ UNCHANGED <<hw, percore, perf_pct, turbo_file, powercap, clock, program>>

\* both limits hold PL1 and PL2 watts and the constraint is enabled
tdp_held(PL1, PL2) ==
    /\ powercap.constraint_0_power_limit_uw = ToString(PL1 * 1000000)
    /\ powercap.constraint_1_power_limit_uw = ToString(PL2 * 1000000)
    /\ powercap.enabled = "1"

set_tdp_limits(PL1, PL2) ==
    /\ Ready
    /\ IF ~(PL1 <= PL2)
       THEN /\ last' = Control(tdp_held(PL1, PL2),
                               "set_tdp_limits", <<PL1, PL2>>, "AssertionError", None,
                            <<>>, <<>>)
            /\ UNCHANGED powercap
       ELSE IF CPU["scaling_driver"] = "intel_pstate" /\ PL1 # 0 /\ PL2 # 0
               /\ hw.rapl_constraints_exist
       THEN /\ powercap' =
                  [powercap EXCEPT
                      !.constraint_0_power_limit_uw =
                          IF PL1 > 0 THEN str(PL1 * 1000000) ELSE @,
                      !.constraint_1_power_limit_uw =
                          IF PL2 > 0 THEN str(PL2 * 1000000) ELSE @,
                      !.enabled = IF PL1 > 0 \/ PL2 > 0 THEN "1" ELSE @]
            /\ last' = Control(tdp_held(PL1, PL2),
                               "set_tdp_limits", <<PL1, PL2>>, None, None,
                   (IF PL1 > 0 THEN <<W("constraint_0_power_limit_uw", -1,
                                        str(PL1 * 1000000))>> ELSE <<>>)
                   \o (IF PL2 > 0 THEN <<W("constraint_1_power_limit_uw", -1,
                                           str(PL2 * 1000000))>> ELSE <<>>)
                   \o (IF PL1 > 0 \/ PL2 > 0 THEN <<W("enabled", -1, "1")>> ELSE <<>>),
                   <<>>)
       ELSE /\ last' = Control(tdp_held(PL1, PL2),
                               "set_tdp_limits", <<PL1, PL2>>, None, None, <<>>, <<>>)
            /\ UNCHANGED powercap
    /\ UNCHANGED <<hw, cpu_online, percore, perf_pct, turbo_file, clock, program>>

\* ------------------------------------------------------------- power draw
read_power_draw ==
    /\ Ready
    /\ IF CPU["power_reading_method"] = "power"
       THEN last' = Call("read_power_draw", <<>>, None,
                         Float(int(BatDevice(CPU["bat_path"]).power_now), 1, 1),
                         <<>>, <<"power_now">>)
       ELSE IF CPU["power_reading_method"] = "current_and_voltage"
       THEN last' = Call("read_power_draw", <<>>, None,
                         Float(int(BatDevice(CPU["bat_path"]).current_now)
                                 * int(BatDevice(CPU["bat_path"]).voltage_now), 1, 2),
                         <<>>, <<"current_now", "voltage_now">>)
       ELSE last' = Call("read_power_draw", <<>>, None, Float(-1, 1, 0), <<>>, <<>>)
    /\ UNCHANGED <<hw, files, clock, program>>

\* -------------------------------------------------------------------- Rapl
\* energy_delta without the overflow correction
energy_delta_uncorrected(current_energy, last_energy, max_energy) ==
    current_energy - last_energy

\* energy_delta of read_power
energy_delta_of(current_energy, last_energy, max_energy) ==
    IF current_energy < last_energy
    THEN current_energy - last_energy + max_energy
    ELSE current_energy - last_energy

Rapl_read_power ==
    /\ Ready
    /\ IF ~RAPL["enabled"]
       THEN /\ last' = Call("read_power", <<>>, None, Float(-1, 1, 0), <<>>, <<>>)
            /\ UNCHANGED RAPL
       ELSE LET current_energy == int(powercap.energy_uj)
                current_time == clock
                energy_delta == energy_delta_of(current_energy, RAPL["last_energy"],
                                                RAPL["max_energy"])
                time_delta == current_time - RAPL["last_time"]
            IN  IF time_delta = 0            \* energy_delta / time_delta raises
                THEN /\ last' = Call("read_power", <<current_energy, current_time>>,
                                     "ZeroDivisionError", None, <<>>, <<"energy_uj">>)
                     /\ UNCHANGED RAPL
                ELSE /\ last' = Call("read_power", <<current_energy, current_time>>, None,
                                     Float(energy_delta, time_delta, 1), <<>>,
                                     <<"energy_uj">>)
                     /\ RAPL' = [RAPL EXCEPT !["last_energy"] = current_energy,
                                             !["last_time"] = current_time]
    /\ UNCHANGED <<hw, files, clock, pc, CPU, log>>

\* ------------------------------------------------------------- environment
External == Call("external", <<>>, None, None, <<>>, <<>>)

\* another process, or the firmware, switches a core
Hotplug(core_id, text) ==
    /\ core_id \in DOMAIN cpu_online
    /\ online_exists(core_id)
    /\ cpu_online[core_id] # text
    /\ cpu_online' = [cpu_online EXCEPT ![core_id] = text]
    /\ last' = External
    /\ UNCHANGED <<hw, percore, perf_pct, turbo_file, powercap, clock, program>>

\* the package burns energy: the counter moves, wrapping at max_energy_range_uj
EnergySamples == {0, 50, int(hw.max_energy_range_uj) - 100, int(hw.max_energy_range_uj) - 1}

PackageEnergy(energy) ==
    /\ hw.rapl_energy_exists
    /\ powercap.energy_uj # str(energy)
    /\ powercap' = [powercap EXCEPT !.energy_uj = str(energy)]
    /\ last' = External
    /\ UNCHANGED <<hw, cpu_online, percore, perf_pct, turbo_file, clock, program>>

Tick ==
    /\ clock < MaxTime
    /\ clock' = clock + 1
    /\ last' = External
    /\ UNCHANGED <<hw, files, program>>


\* ---------------------------------------------------------------- machines
Cores(n) == 0 .. (n - 1)

\* every grouping of n logical cores into physical cores: a labelling of the
\* cores by block, each new block taking the next unused label
Topologies(n) ==
    {[c \in Cores(n) |-> {d \in Cores(n) : label[d] = label[c]}] :
        label \in {l \in [Cores(n) -> Cores(n)] :
                      \A c \in Cores(n) :
                          l[c] <= Cardinality({l[d] : d \in Cores(n) \cap (0 .. (c - 1))})}}

AllGovernors == {"performance", "powersave", "schedutil"}
AllPolicies == {"performance", "balance_power", "power"}
\* the arguments the control operations are called with: a range that holds
\* at boot, a narrower one, and one that fails the assertion
FreqRanges == {<<800, 2000>>, <<800, 800>>, <<2000, 800>>}
PerfRanges == {<<10, 100>>, <<10, 10>>, <<100, 10>>}
PowerLimits == {<<15, 25>>, <<15, 15>>, <<0, 15>>, <<25, 15>>}

NoBattery == <<>>
Battery(companion, power_now, current_now, voltage_now) ==
    <<[name |-> "BAT0", type |-> "Battery", companion |-> companion,
       power_now |-> power_now, current_now |-> current_now,
       voltage_now |-> voltage_now]>>
Adapter(type, companion) ==
    <<[name |-> "AC", type |-> type, companion |-> companion]>>

\* a two core Intel laptop with everything present; the specifications vary it
Laptop ==
    [root |-> TRUE,
     siblings |-> [c \in Cores(2) |-> {c}],
     cpuinfo_min_freq |-> "800",
     cpuinfo_max_freq |-> "3000",
     base_frequency |-> "2000",
     scaling_available_governors |-> <<"performance", "powersave">>,
     epp_exists |-> TRUE,
     energy_performance_available_preferences |-> <<"performance", "balance_power">>,
     scaling_driver |-> "intel_pstate",
     turbo_files |-> {turbo_pstate},
     turbo_writable |-> TRUE,
     ac_devices |-> Adapter("Mains", TRUE),
     bat_devices |-> Battery(TRUE, "15000000", None, None),
     sensors |-> ("coretemp" :> 95),
     rapl_energy_exists |-> TRUE,
     rapl_enabled_exists |-> TRUE,
     rapl_constraints_exist |-> TRUE,
     max_energy_range_uj |-> "1000"]

\* the files of a machine whose cores are alike, as the kernel leaves them
FilesInit(n) ==
    /\ energy_performance_preference = [c \in Cores(n) |-> "balance_power"]
    /\ scaling_min_freq = [c \in Cores(n) |-> "800"]
    /\ scaling_max_freq = [c \in Cores(n) |-> "2000"]
    /\ perf_pct = [min |-> "10", max |-> "100"]
    /\ turbo_file = "0"
    /\ powercap = [enabled |-> "1", energy_uj |-> "0",
                   constraint_0_power_limit_uw |-> "15000000",
                   constraint_1_power_limit_uw |-> "25000000"]
    /\ clock = 0

ProgramInit ==
    /\ pc = "boot"
    /\ CPU = <<>>
    /\ RAPL = <<>>
    /\ log = {}
    /\ last = Call("boot", <<>>, None, None, <<>>, <<>>)

\* --------------------------------------- Spec: governors and core hotplug
Init ==
    /\ \E n \in 1 .. MaxCores :
         /\ \E siblings \in Topologies(n) : hw = [Laptop EXCEPT !.siblings = siblings]
         /\ cpu_online \in {o \in [Cores(n) -> {"0", "1"}] : o[0] = "1"}
         /\ scaling_governor \in [Cores(n) -> Range(Laptop.scaling_available_governors)]
         /\ FilesInit(n)
    /\ ProgramInit

Next ==
    \/ Probe
    \/ \E governor \in AllGovernors : set_governor(governor)
    \/ \E num_cores \in 0 .. (MaxCores + 1) : set_physical_cores_online(num_cores)
    \/ \E core_id \in Cores(MaxCores), text \in {"0", "1"} : Hotplug(core_id, text)

Spec == Init /\ [][Next]_vars


\* ------------------------------- SpecProbe: the optional hardware features
TurboMachines ==
    {t \in [files : {{}, {turbo_pstate}, {turbo_cpufreq}, {turbo_amd_legacy},
                     {turbo_pstate, turbo_cpufreq}},
            writable : BOOLEAN, text : {"0", "1"}] :
        t.files = {} => ~t.writable /\ t.text = "0"}

AdapterMachines == {<<>>, Adapter("Mains", TRUE), Adapter("USB", TRUE)}

BatteryMachines ==
    {NoBattery, Battery(FALSE, "15000000", None, None),
     Battery(TRUE, "15000000", None, None), Battery(TRUE, None, "2000", "3000"),
     Battery(TRUE, None, "2000", None)}

SensorMachines == {<<>>, ("nct6775" :> 90), ("acpitz" :> 105 @@ "k10temp" :> 90)}

\* no powercap package, a package that is switched off, one that is on
RaplMachines == {[exists |-> FALSE, enabled |-> "0"], [exists |-> TRUE, enabled |-> "0"],
                 [exists |-> TRUE, enabled |-> "1"]}

InitProbe ==
    /\ \E root \in BOOLEAN, epp \in BOOLEAN, turbo \in TurboMachines,
          ac \in AdapterMachines, bat \in BatteryMachines, sensors \in SensorMachines,
          rapl \in RaplMachines :
         /\ ~root => ~turbo.writable       \* sysfs control files are root's to write
         /\ hw = [Laptop EXCEPT !.root = root,
                                !.epp_exists = epp,
                                !.turbo_files = turbo.files,
                                !.turbo_writable = turbo.writable,
                                !.ac_devices = ac,
                                !.bat_devices = bat,
                                !.sensors = sensors,
                                !.rapl_energy_exists = rapl.exists,
                                !.rapl_enabled_exists = rapl.exists,
                                !.rapl_constraints_exist = rapl.exists]
         /\ turbo_file = turbo.text
         /\ powercap = [enabled |-> rapl.enabled, energy_uj |-> "0",
                        constraint_0_power_limit_uw |-> "15000000",
                        constraint_1_power_limit_uw |-> "25000000"]
    /\ cpu_online = [c \in Cores(2) |-> "1"]
    /\ scaling_governor = [c \in Cores(2) |-> "powersave"]
    /\ energy_performance_preference = [c \in Cores(2) |-> "balance_power"]
    /\ scaling_min_freq = [c \in Cores(2) |-> "800"]
    /\ scaling_max_freq = [c \in Cores(2) |-> "2000"]
    /\ perf_pct = [min |-> "10", max |-> "100"]
    /\ clock = 0
    /\ ProgramInit

NextProbe ==
    \/ Probe
    \/ \E turbo_state \in BOOLEAN : set_turbo_state(turbo_state)
    \/ read_power_draw

SpecProbe == InitProbe /\ [][NextProbe]_vars

\* ------------------------------------------------ SpecRapl: the RAPL meter
InitRapl ==
    /\ hw = Laptop
    /\ cpu_online = [c \in Cores(2) |-> "1"]
    /\ scaling_governor = [c \in Cores(2) |-> "powersave"]
    /\ energy_performance_preference = [c \in Cores(2) |-> "balance_power"]
    /\ scaling_min_freq = [c \in Cores(2) |-> "800"]
    /\ scaling_max_freq = [c \in Cores(2) |-> "2000"]
    /\ perf_pct = [min |-> "10", max |-> "100"]
    /\ turbo_file = "0"
    /\ \E enabled \in {"0", "1"}, energy \in EnergySamples :
          powercap = [enabled |-> enabled, energy_uj |-> str(energy),
                      constraint_0_power_limit_uw |-> "15000000",
                      constraint_1_power_limit_uw |-> "25000000"]
    /\ clock = 0
    /\ ProgramInit

NextRapl ==
    \/ Probe
    \/ Rapl_read_power
    \/ \E energy \in EnergySamples : PackageEnergy(energy)
    \/ Tick

SpecRapl == InitRapl /\ [][NextRapl]_vars

\* ------------------------------------ SpecControl: the control operations
InitControl ==
    /\ \E driver \in {"intel_pstate", "acpi-cpufreq"}, constraints \in BOOLEAN :
          hw = [Laptop EXCEPT !.scaling_driver = driver,
                              !.rapl_constraints_exist = constraints]
    /\ cpu_online = [c \in Cores(2) |-> "1"]
    /\ scaling_governor = [c \in Cores(2) |-> "powersave"]
    /\ FilesInit(2)
    /\ ProgramInit

NextControl ==
    \/ Probe
    \/ \E governor \in AllGovernors : set_governor(governor)
    \/ \E policy \in AllPolicies : set_policy(policy)
    \/ \E range \in FreqRanges : set_freq_range(range[1], range[2])
    \/ \E range \in PerfRanges : set_perf_range(range[1], range[2])
    \/ \E turbo_state \in BOOLEAN : set_turbo_state(turbo_state)
    \/ \E num_cores \in 0 .. 3 : set_physical_cores_online(num_cores)
    \/ \E limits \in PowerLimits : set_tdp_limits(limits[1], limits[2])

SpecControl == InitControl /\ [][NextControl]_vars

\* ============================================================== properties
Called(op) == last.op = op
Returned(op) == last.op = op /\ last.raised = None

\* the logical cores of the physical core that holds logical core 0
BootGroup ==
    {c \in DOMAIN cpu_online :
        \E i \in DOMAIN CPU["thread_siblings"] :
            /\ 0 \in Range(CPU["thread_siblings"][i])
            /\ c \in Range(CPU["thread_siblings"][i])}

\* C1: set_governor(g) with g outside the probed governors fails with the
\* assertion's error and writes nothing: no write is issued and every core's
\* scaling_governor file is as it was, whatever the files held.
C1_InvalidGovernorRejected ==
    /\ [](Called("set_governor") /\ last.args[1] \notin Range(CPU["governors"])
            => last.raised = "AssertionError" /\ last.writes = <<>>)
    /\ [][last'.op = "set_governor" /\ last'.args[1] \notin Range(CPU'["governors"])
            => UNCHANGED scaling_governor]_vars

C1_Witness ==
    /\ Called("set_governor")
    /\ last.args[1] \notin Range(CPU["governors"])
    /\ \E c \in DOMAIN scaling_governor : scaling_governor[c] # scaling_governor[0]

\* C2: set_physical_cores_online(n), 0 < n <= physical cores, writes neither
\* "1" nor "0" to the online file of a logical core of the physical core that
\* holds logical core 0.
C2_BootGroupNeverWritten ==
    Returned("set_physical_cores_online") =>
        \A i \in DOMAIN last.writes : last.writes[i][2] \notin BootGroup

C2_Witness ==
    /\ Returned("set_physical_cores_online")
    /\ last.writes # <<>>
    /\ Cardinality(BootGroup) = 2
    /\ \E c \in BootGroup : cpu_online[c] = "0"

\* C9: set_governor(g), g a probed governor, when every online core already
\* has governor g: no write is issued and every governor file is unchanged.
C9_SameGovernorNoWrite ==
    [][(/\ last'.op = "set_governor"
        /\ last'.args[1] \in Range(CPU["governors"])
        /\ \A c \in Range(list_cores("online")) : scaling_governor[c] = last'.args[1])
       => last'.writes = <<>> /\ UNCHANGED scaling_governor]_vars

C9_Witness ==
    /\ Returned("set_governor")
    /\ last.writes = <<>>
    /\ Cardinality(DOMAIN scaling_governor) >= 2
    /\ \A c \in Range(list_cores("online")) : scaling_governor[c] = last.args[1]
    /\ \E c \in DOMAIN scaling_governor : scaling_governor[c] # last.args[1]


\* C3: the import always completes, whichever optional features the machine
\* lacks, and records each absent feature as unavailable: no battery, no turbo
\* file, no RAPL package, no energy_performance preferences, no known sensor.
C3_ProbeAlwaysCompletes ==
    Called("import") =>
        /\ last.raised = None
        /\ pc = "ready"
        /\ (hw.bat_devices = <<>> =>
               CPU["bat_path"] = None /\ CPU["power_reading_method"] = None)
        /\ (hw.ac_devices = <<>> => CPU["ac_path"] = None)
        /\ (hw.turbo_files = {} => CPU["turbo_path"] = None)
        /\ (~hw.rapl_energy_exists => ~RAPL["enabled"])
        /\ (~hw.epp_exists => CPU["policies"] = <<>>)
        /\ (DOMAIN hw.sensors \cap Range(ALLOWED_TEMP_SENSORS) = {} =>
               CPU["crit_temp"] = 100)

\* C4: set_turbo_state(enabled) returns normally and writes nothing when no
\* turbo file was found (turbo_path is None) and when the file was found but
\* the probe could not write it (turbo_allowed False).
C4_TurboNoOpWhenAbsentOrLocked ==
    Called("set_turbo_state") /\ (CPU["turbo_path"] = None \/ ~CPU["turbo_allowed"])
        => last.raised = None /\ last.writes = <<>>

\* C5: with a turbo file that is present and writable, after
\* set_turbo_state(b) read_turbo_state() is b and the file holds b XOR
\* turbo_inverse, for both polarities and both initial contents.
C5_TurboRoundTrip ==
    Returned("set_turbo_state") /\ CPU["turbo_allowed"] =>
        /\ read_turbo_state = last.args[1]
        /\ turbo_file = IF last.args[1] # CPU["turbo_inverse"] THEN "1" ELSE "0"

C5_Witness ==
    /\ Returned("set_turbo_state")
    /\ CPU["turbo_allowed"]
    /\ CPU["turbo_inverse"]
    /\ last.args[1]
    /\ last.writes # <<>>

\* C10: with no AC device and no battery detected, power_reading_method is
\* None and read_power_draw returns -1, raising nothing and reading no file.
C10_NoPowerSupplySentinel ==
    pc = "ready" /\ CPU["ac_path"] = None /\ CPU["bat_path"] = None =>
        /\ CPU["power_reading_method"] = None
        /\ (Called("read_power_draw") =>
               /\ last.raised = None
               /\ last.result = Float(-1, 1, 0)
               /\ last.reads = <<>>)

C10_Witness ==
    /\ Called("read_power_draw")
    /\ CPU["ac_path"] = None
    /\ CPU["bat_path"] = None
    /\ hw.bat_devices # <<>>


\* C6: an enabled meter's read_power() takes current - last as the energy
\* delta when the counter has not gone below the baseline, and
\* current - last + max_energy when it has (the modulus added once), and
\* returns delta / elapsed seconds / 10**6.
C6_PowerFromDelta ==
    [][last'.op = "read_power" /\ last'.raised = None /\ RAPL["enabled"] =>
          LET current == int(powercap.energy_uj)
              baseline == RAPL["last_energy"]
              delta == IF current >= baseline THEN current - baseline
                       ELSE current - baseline + int(hw.max_energy_range_uj)
          IN  last'.result = [num |-> delta, den |-> clock - RAPL["last_time"],
                              micro |-> 1]]_vars

\* the wrap of the example: baseline max_energy - 100, sample 50, delta 150
C6_Witness ==
    /\ Returned("read_power")
    /\ RAPL["enabled"]
    /\ last.args[1] = 50
    /\ last.result.num = 150

\* C7: when a call of an enabled meter's read_power() ends, last_energy is
\* the counter value the call sampled and last_time the time it sampled,
\* also when it samples at the time of the baseline.
C7_BaselineAlwaysAdvances ==
    Called("read_power") /\ RAPL["enabled"] =>
        RAPL["last_energy"] = last.args[1] /\ RAPL["last_time"] = last.args[2]

\* C8: a control operation called for the state that already holds issues no
\* write.
C8_NoWriteWhenStateHolds ==
    last.held => last.writes = <<>>


\* C11: when set_governor(g), g a probed governor, returns, the
\* scaling_governor of every online core is g, whatever the cores held before.
C11_GovernorOnEveryOnlineCore ==
    Returned("set_governor") =>
        \A c \in Range(list_cores("online")) : scaling_governor[c] = last.args[1]

\* C12: when set_physical_cores_online(n), 0 < n <= physical cores, returns,
\* every sibling of each physical core of index < n is online and every
\* sibling of each physical core of index >= n that does not hold logical
\* core 0 is offline, whatever the cores' online files held before.
C12_SiblingsFollowCount ==
    Returned("set_physical_cores_online") =>
        \A i \in DOMAIN CPU["thread_siblings"] :
            LET core_ids == Range(CPU["thread_siblings"][i])
            IN  IF i - 1 < last.args[1]
                THEN \A c \in core_ids : cpu_online[c] = "1"
                ELSE 0 \in core_ids \/ \A c \in core_ids : cpu_online[c] = "0"

=============================================================================
